---- MODULE Spec2Model ----
(***************************************************************************)
(* roqoqo-qasm interface: call_circuit, call_operation and gate_definition *)
(* of src/roqoqo-qasm/src/interface.rs, as operators over operation        *)
(* records, driven by a small state machine that applies them to inputs    *)
(* drawn from bounded sets.                                                *)
(***************************************************************************)
EXTENDS Integers, Sequences, FiniteSets, TLC

VARIABLES
    pc,                   \* position of the running call
    circuit,              \* call_circuit argument: sequence of operations
    qubit_register_name,  \* register name argument
    idx,                  \* position of circuit.iter() (1-based, next item)
    str_circuit,          \* the Vec<String> being built by call_circuit
    lowered,              \* indices on which call_operation has been invoked
    circuit_result,       \* value returned by call_circuit
    operation,            \* call_operation / gate_definition argument
    operation_result,     \* value returned by call_operation
    definition_result     \* value returned by gate_definition

vars == <<pc, circuit, qubit_register_name, idx, str_circuit, lowered,
          circuit_result, operation, operation_result, definition_result>>

(***************************************************************************)
(* Bounds of the model.                                                    *)
(***************************************************************************)
MaxQubit == 1      \* qubit and bit indices range over 0..MaxQubit
MaxLen == 4        \* longest circuit handed to call_circuit
MaxInner == 2      \* longest sub-circuit of a conditional
MaxDepth == 2      \* deepest nesting of conditionals
MaxMap == 2        \* most entries of a qubit mapping

(***************************************************************************)
(* Text helpers: usize and f64 formatting as Rust's format! does it.       *)
(***************************************************************************)
DigitChar(d) ==
    CASE d = 0 -> "0" [] d = 1 -> "1" [] d = 2 -> "2" [] d = 3 -> "3"
      [] d = 4 -> "4" [] d = 5 -> "5" [] d = 6 -> "6" [] d = 7 -> "7"
      [] d = 8 -> "8" [] d = 9 -> "9"

RECURSIVE DigitsToStr(_)
DigitsToStr(ds) ==
    IF ds = <<>> THEN "" ELSE DigitChar(Head(ds)) \o DigitsToStr(Tail(ds))

\* Display of an unsigned integer ({} on usize).
RECURSIVE UsizeToStr(_)
UsizeToStr(n) ==
    IF n < 10 THEN DigitChar(n) ELSE UsizeToStr(n \div 10) \o DigitChar(n % 10)

\* Display of a signed integer (the exponent of {:e}).
IntToStr(n) == IF n < 0 THEN "-" \o UsizeToStr(-n) ELSE UsizeToStr(n)

Zeros(n) == [i \in 1..n |-> 0]

(***************************************************************************)
(* CalculatorFloat: Float(f64) or Str(symbolic expression).  An f64 is     *)
(* held as its shortest round-trip decimal expansion: sign, significant    *)
(* digits d1 d2 ... dn (no trailing zeros; <<0>> for zero) and the decimal *)
(* exponent of d1, so the value is d1.d2...dn * 10^exp.                     *)
(***************************************************************************)
Float(neg, digits, exp) ==
    [tag |-> "Float", neg |-> neg, digits |-> digits, exp |-> exp, expr |-> ""]

Str(expr) ==
    [tag |-> "Str", neg |-> FALSE, digits |-> <<>>, exp |-> 0, expr |-> expr]

FRAC_PI_2 == Float(FALSE, <<1,5,7,0,7,9,6,3,2,6,7,9,4,8,9,6,6>>, 0)
F0_23 == Float(FALSE, <<2,3>>, -1)
FZero == Float(FALSE, <<0>>, 0)
FOne == Float(FALSE, <<1>>, 0)

\* CalculatorFloat::float(): Ok(&f64) for Float, Err for Str.
FloatIsOk(cf) == cf.tag = "Float"

\* Digits before and after the decimal point of an f64.
IntDigits(f) ==
    IF f.exp < 0 THEN <<0>>
    ELSE LET n == Len(f.digits)
         IN  IF n >= f.exp + 1 THEN SubSeq(f.digits, 1, f.exp + 1)
             ELSE f.digits \o Zeros(f.exp + 1 - n)

FracDigits(f) ==
    IF f.exp < 0 THEN Zeros(-f.exp - 1) \o f.digits
    ELSE SubSeq(f.digits, f.exp + 2, Len(f.digits))

Sign(f) == IF f.neg THEN "-" ELSE ""

\* Add one in the last place of a digit sequence; <<carry, digits>>.
RECURSIVE Increment(_)
Increment(ds) ==
    IF ds = <<>> THEN <<1, <<>>>>
    ELSE LET n == Len(ds)
             last == ds[n]
             init == SubSeq(ds, 1, n - 1)
         IN  IF last < 9 THEN <<0, init \o <<last + 1>>>>
             ELSE LET r == Increment(init) IN <<r[1], r[2] \o <<0>>>>

\* {:.15} on f64: fixed point, 15 fractional digits, rounded.
Fixed15F64(f) ==
    LET id == IntDigits(f)
        fd == FracDigits(f)
        all == id \o (IF Len(fd) >= 15 THEN SubSeq(fd, 1, 15)
                      ELSE fd \o Zeros(15 - Len(fd)))
        up == Len(fd) > 15 /\ fd[16] >= 5
        r == IF up THEN Increment(all) ELSE <<0, all>>
        out == IF r[1] = 1 THEN <<1>> \o r[2] ELSE r[2]
        k == Len(out) - 15
    IN  Sign(f) \o DigitsToStr(SubSeq(out, 1, k)) \o "."
            \o DigitsToStr(SubSeq(out, k + 1, Len(out)))

\* Faulty variant of DisplayF64: the angle is cut to 15 fractional digits.
DisplayF64Rounded(f) == Fixed15F64(f)

\* {} on f64: shortest round-trip digits, never an exponent, no ".0".
DisplayF64(f) ==
    Sign(f) \o DigitsToStr(IntDigits(f))
        \o (IF FracDigits(f) = <<>> THEN "" ELSE "." \o DigitsToStr(FracDigits(f)))

\* {:e} on f64: d1.d2...dn e exp.
LowerExpF64(f) ==
    Sign(f) \o DigitChar(f.digits[1])
        \o (IF Len(f.digits) > 1 THEN "." \o DigitsToStr(Tail(f.digits)) ELSE "")
        \o "e" \o IntToStr(f.exp)

\* {} on CalculatorFloat (qoqo_calculator): a Float in {:e} notation, a Str
\* verbatim.
DisplayCalculatorFloat(cf) ==
    IF cf.tag = "Float" THEN LowerExpF64(cf) ELSE cf.expr

(***************************************************************************)
(* Operations.  An operation is a record whose hqslang field is the        *)
(* variant of roqoqo's Operation enum (Operation::hqslang() returns that   *)
(* name) and whose other fields are the variant's fields.                  *)
(***************************************************************************)
hqslang(op) == op.hqslang

SingleQubitOp(name, qubit) == [hqslang |-> name, qubit |-> qubit]

RotationOp(name, qubit, theta) ==
    [hqslang |-> name, qubit |-> qubit, theta |-> theta]

TwoQubitOp(name, control, target) ==
    [hqslang |-> name, control |-> control, target |-> target]

TwoQubitThetaOp(name, control, target, theta) ==
    [hqslang |-> name, control |-> control, target |-> target, theta |-> theta]

RotateXY(qubit, theta, phi) ==
    [hqslang |-> "RotateXY", qubit |-> qubit, theta |-> theta, phi |-> phi]

SingleQubitGate(qubit, alpha_r, alpha_i, beta_r, beta_i, global_phase) ==
    [hqslang |-> "SingleQubitGate", qubit |-> qubit,
     alpha_r |-> alpha_r, alpha_i |-> alpha_i,
     beta_r |-> beta_r, beta_i |-> beta_i, global_phase |-> global_phase]

PragmaConditional(condition_register, condition_index, sub) ==
    [hqslang |-> "PragmaConditional", condition_register |-> condition_register,
     condition_index |-> condition_index, circuit |-> sub]

\* Option<HashMap<usize, usize>>.  A HashMap is held as its entries in the
\* order they were inserted and the order in which iter() yields them; the
\* latter is any permutation of the former (std's HashMap hashes with a
\* per-map random seed and promises no order).
NoMapping == [some |-> FALSE, inserted |-> <<>>, iter |-> <<>>]
SomeMapping(inserted, iter) == [some |-> TRUE, inserted |-> inserted, iter |-> iter]

PragmaRepeatedMeasurement(readout, number_measurements, qubit_mapping) ==
    [hqslang |-> "PragmaRepeatedMeasurement", readout |-> readout,
     number_measurements |-> number_measurements, qubit_mapping |-> qubit_mapping]

MeasureQubit(qubit, readout, readout_index) ==
    [hqslang |-> "MeasureQubit", qubit |-> qubit, readout |-> readout,
     readout_index |-> readout_index]

DefinitionOp(name, reg, length, is_output) ==
    [hqslang |-> name, name |-> reg, length |-> length, is_output |-> is_output]

PragmaSleep(qubits, sleep_time) ==
    [hqslang |-> "PragmaSleep", qubits |-> qubits, sleep_time |-> sleep_time]

PragmaGlobalPhase(phase) == [hqslang |-> "PragmaGlobalPhase", phase |-> phase]

PragmaStopParallelBlock(qubits, execution_time) ==
    [hqslang |-> "PragmaStopParallelBlock", qubits |-> qubits,
     execution_time |-> execution_time]

PragmaDecompositionBlock(name, qubits) == [hqslang |-> name, qubits |-> qubits]

PragmaSetNumberOfMeasurements(number_measurements, readout) ==
    [hqslang |-> "PragmaSetNumberOfMeasurements",
     number_measurements |-> number_measurements, readout |-> readout]

InputSymbolic(name, input) ==
    [hqslang |-> "InputSymbolic", name |-> name, input |-> input]

(***************************************************************************)
(* Results.  call_operation and gate_definition return                     *)
(* Result<String, RoqoqoBackendError>; an unwrap() of an Err unwinds       *)
(* instead of returning, which is the third outcome, Panic.                *)
(***************************************************************************)
NoError == [variant |-> "", backend |-> "", hqslang |-> "", msg |-> ""]

OperationNotInBackend(backend, name) ==
    [variant |-> "OperationNotInBackend", backend |-> backend,
     hqslang |-> name, msg |-> ""]

GenericError(msg) ==
    [variant |-> "GenericError", backend |-> "", hqslang |-> "", msg |-> msg]

Ok(text) == [tag |-> "Ok", text |-> text, error |-> NoError]
Err(error) == [tag |-> "Err", text |-> "", error |-> error]
Panic == [tag |-> "Panic", text |-> "", error |-> NoError]

(***************************************************************************)
(* call_operation, arm by arm.                                             *)
(***************************************************************************)
\* Faulty variant of ALLOWED_OPERATIONS: the last entry is missing.
AllowedWithoutInputSymbolic ==
    {"PragmaSleep", "PragmaGlobalPhase", "PragmaStopParallelBlock",
     "PragmaStopDecompositionBlock", "PragmaSetNumberOfMeasurements",
     "PragmaStartDecompositionBlock"}

\* Pragma operations that are ignored by backend and do not throw an error.
ALLOWED_OPERATIONS ==
    {"PragmaSleep", "PragmaGlobalPhase", "PragmaStopParallelBlock",
     "PragmaStopDecompositionBlock", "PragmaSetNumberOfMeasurements",
     "PragmaStartDecompositionBlock", "InputSymbolic"}

\* "<register>[<index>]"
Indexed(register, index) == register \o "[" \o UsizeToStr(index) \o "]"

\* RotateZ, RotateX, RotateY, PhaseShiftState1:
\* format!("<m>({}) {}[{}];", op.theta().float().unwrap(), register, qubit)
ParametricRotation(mnemonic, op, register) ==
    IF FloatIsOk(op.theta)
    THEN Ok(mnemonic \o "(" \o DisplayF64(op.theta) \o ") "
            \o Indexed(register, op.qubit) \o ";")
    ELSE Panic

\* Hadamard, PauliX/Y/Z, SGate, TGate, SqrtPauliX, InvSqrtPauliX, PragmaActiveReset.
SingleQubitLine(mnemonic, op, register) ==
    Ok(mnemonic \o " " \o Indexed(register, op.qubit) \o ";")

\* CNOT, MolmerSorensenXX, ControlledPauliY, ControlledPauliZ, SWAP.
TwoQubitLine(mnemonic, op, register) ==
    Ok(mnemonic \o " " \o Indexed(register, op.control) \o ","
        \o Indexed(register, op.target) \o ";")

\* VariableMSXX, ControlledPhaseShift: theta goes through CalculatorFloat's
\* Display, which never fails.
TwoQubitThetaLine(mnemonic, op, register) ==
    Ok(mnemonic \o "(" \o DisplayCalculatorFloat(op.theta) \o ") "
        \o Indexed(register, op.control) \o ","
        \o Indexed(register, op.target) \o ";")

\* Angles of the SingleQubitGate arm, in quarter turns (multiples of pi/2),
\* for amplitudes whose real and imaginary parts are 0 or 1 and whose argument
\* is not a signed zero.
QuarterTurn(k) ==
    CASE k = 0 -> FZero
      [] k = 1 -> FRAC_PI_2
      [] k = -1 -> Float(TRUE, FRAC_PI_2.digits, 0)
      [] k = 2 -> Float(FALSE, <<3,1,4,1,5,9,2,6,5,3,5,8,9,7,9,3>>, 0)
      [] k = -2 -> Float(TRUE, <<3,1,4,1,5,9,2,6,5,3,5,8,9,7,9,3>>, 0)

\* CalculatorComplex::arg(): atan2(im, re).
ArgQuarters(re, im) == IF im = FOne /\ re = FZero THEN 1 ELSE 0

\* CalculatorComplex::norm().acos() * 2.0
ThetaQuarters(re, im) == IF re = FZero /\ im = FZero THEN 2 ELSE 0

SingleQubitGateLine(op, register) ==
    IF \E c \in {op.alpha_r, op.alpha_i, op.beta_r, op.beta_i} : ~FloatIsOk(c)
    THEN Panic
    ELSE LET a == ArgQuarters(op.alpha_r, op.alpha_i)
             b == ArgQuarters(op.beta_r, op.beta_i)
             theta == QuarterTurn(ThetaQuarters(op.alpha_r, op.alpha_i))
             phi == QuarterTurn(-a + b)
             lamda == QuarterTurn(-a - b)
         IN  Ok("u3(" \o Fixed15F64(theta) \o "," \o Fixed15F64(phi) \o ","
                 \o Fixed15F64(lamda) \o ") " \o Indexed(register, op.qubit) \o ";")

\* PragmaRepeatedMeasurement, Some(qm): one line per (key, val) of qm.iter(),
\* each pushed with its "\n".
RECURSIVE MappingLines(_, _, _)
MappingLines(entries, readout, register) ==
    IF entries = <<>> THEN ""
    ELSE "measure " \o Indexed(register, Head(entries)[1]) \o " -> "
            \o Indexed(readout, Head(entries)[2]) \o ";\n"
            \o MappingLines(Tail(entries), readout, register)

\* Faulty variant of RepeatedMeasurement: a mapping without entries is taken for no
\* mapping.
RepeatedMeasurementEmptyAsNone(op, register) ==
    IF ~op.qubit_mapping.some \/ op.qubit_mapping.iter = <<>>
    THEN Ok("measure " \o register \o " -> " \o op.readout \o ";")
    ELSE Ok(MappingLines(op.qubit_mapping.iter, op.readout, register))

RepeatedMeasurement(op, register) ==
    IF ~op.qubit_mapping.some
    THEN Ok("measure " \o register \o " -> " \o op.readout \o ";")
    ELSE Ok(MappingLines(op.qubit_mapping.iter, op.readout, register))

\* DefinitionFloat, DefinitionUsize, DefinitionBit, DefinitionComplex.
Definition(op) == Ok("creg " \o Indexed(op.name, op.length) \o ";")

\* Faulty variant of Fallback: the error names the enum, not the operation's kind.
FallbackFixedName(op) ==
    IF hqslang(op) \in ALLOWED_OPERATIONS
    THEN Ok("")
    ELSE Err(OperationNotInBackend("QASM", "Operation"))

\* The `_ =>` arm.
Fallback(op) ==
    IF hqslang(op) \in ALLOWED_OPERATIONS
    THEN Ok("")
    ELSE Err(OperationNotInBackend("QASM", hqslang(op)))

\* "if(<condition_register>[<condition_index>]==1) "
Guard(op) == "if(" \o Indexed(op.condition_register, op.condition_index) \o "==1) "

\* Faulty variant of Separator: every guarded statement is followed by a newline.
SeparatorAlways(i, n) == "\n"

\* What follows a guarded statement: nothing after the last item
\* (ite.peek().is_none()), a newline after any other.
Separator(i, n) == IF i = n THEN "" ELSE "\n"

RECURSIVE CallOperation(_, _)
RECURSIVE ConditionalLoop(_, _, _, _)

\* PragmaConditional: the while-let loop from item i on, data built so far.
\* unwrap() of an inner Err unwinds.
ConditionalLoop(op, register, i, data) ==
    IF i > Len(op.circuit) THEN Ok(data)
    ELSE LET r == CallOperation(op.circuit[i], register)
         IN  IF r.tag # "Ok" THEN Panic
             ELSE ConditionalLoop(op, register, i + 1,
                      data \o Guard(op) \o r.text \o Separator(i, Len(op.circuit)))

CallOperation(op, register) ==
    CASE hqslang(op) = "RotateZ" -> ParametricRotation("rz", op, register)
      [] hqslang(op) = "RotateX" -> ParametricRotation("rx", op, register)
      [] hqslang(op) = "RotateY" -> ParametricRotation("ry", op, register)
      [] hqslang(op) = "Hadamard" -> SingleQubitLine("h", op, register)
      [] hqslang(op) = "PauliX" -> SingleQubitLine("x", op, register)
      [] hqslang(op) = "PauliY" -> SingleQubitLine("y", op, register)
      [] hqslang(op) = "PauliZ" -> SingleQubitLine("z", op, register)
      [] hqslang(op) = "SGate" -> SingleQubitLine("s", op, register)
      [] hqslang(op) = "TGate" -> SingleQubitLine("t", op, register)
      [] hqslang(op) = "PhaseShiftState1" -> ParametricRotation("p", op, register)
      [] hqslang(op) = "SqrtPauliX" -> SingleQubitLine("sx", op, register)
      [] hqslang(op) = "InvSqrtPauliX" -> SingleQubitLine("sxdg", op, register)
      [] hqslang(op) = "CNOT" -> TwoQubitLine("cx", op, register)
      [] hqslang(op) = "MolmerSorensenXX" -> TwoQubitLine("rxx(pi/2)", op, register)
      [] hqslang(op) = "VariableMSXX" -> TwoQubitThetaLine("rxx", op, register)
      [] hqslang(op) = "ControlledPauliY" -> TwoQubitLine("cy", op, register)
      [] hqslang(op) = "ControlledPauliZ" -> TwoQubitLine("cz", op, register)
      [] hqslang(op) = "ControlledPhaseShift" -> TwoQubitThetaLine("cp", op, register)
      [] hqslang(op) = "SWAP" -> TwoQubitLine("swap", op, register)
      [] hqslang(op) = "SingleQubitGate" -> SingleQubitGateLine(op, register)
      [] hqslang(op) = "PragmaActiveReset" -> SingleQubitLine("reset", op, register)
      [] hqslang(op) = "PragmaConditional" -> ConditionalLoop(op, register, 1, "")
      [] hqslang(op) = "PragmaRepeatedMeasurement" -> RepeatedMeasurement(op, register)
      [] hqslang(op) = "MeasureQubit" ->
            Ok("measure " \o Indexed(register, op.qubit) \o " -> "
                \o Indexed(op.readout, op.readout_index) \o ";")
      [] hqslang(op) = "DefinitionFloat" -> Definition(op)
      [] hqslang(op) = "DefinitionUsize" -> Definition(op)
      [] hqslang(op) = "DefinitionBit" -> Definition(op)
      [] hqslang(op) = "DefinitionComplex" -> Definition(op)
      [] OTHER -> Fallback(op)

(***************************************************************************)
(* gate_definition: the match looks at the variant only (every pattern is  *)
(* Operation::K(_)).                                                       *)
(***************************************************************************)
GateTemplate(kind) ==
    CASE kind = "RotateX" ->
            Ok("gate rx(theta) a { u3(theta, -pi/2,pi/2) a; }\n")
      [] kind = "RotateY" ->
            Ok("gate ry(theta) a { u3(theta,0,0) a; }\n")
      [] kind = "RotateZ" ->
            Ok("gate rz(phi) a { u1(phi) a; }\n")
      [] kind = "Hadamard" ->
            Ok("gate h a { u2(0,pi) a; }\n")
      [] kind = "CNOT" ->
            Ok("gate cx c,t { CX c,t; }\n")
      [] kind = "ISwap" ->
            Ok("gate iswap a,b { rx(pi/2) a; CX a,b; rx(-pi/2) a; ry(-pi/2) b; CX a,b; rx(-pi/2) a; }\n")
      [] kind = "SqrtISwap" ->
            Ok("gate siswap a,b { rx(pi/2) a; CX a,b; rx(-pi/4) a; ry(-pi/4) b; CX a,b; rx(-pi/2) a; }\n")
      [] kind = "InvSqrtISwap" ->
            Ok("gate siswapdg a,b { rx(pi/2) a; CX a,b; rx(pi/4) a; ry(pi/4) b; CX a,b; rx(-pi/2) a; }\n")
      [] kind = "FSwap" ->
            Ok("gate fswap a,b { rz(-pi/2) a; rz(-pi/2) b; rx(pi/2) a; CX a,b; rx(-pi/2) a; ry(-pi/2) b; CX a,b; rx(-pi/2) a; }\n")
      [] kind = "Fsim" ->
            Ok("gate fsim(t,u,phi) a,b { rz(-pi/2) a; rz(pi) b; ry(pi/2) b; h b; CX a,b; h b; ry(-t+phi+pi/2) a; rx(pi) a; ry(-pi/2) b; rz((u-pi)/2) b; h b; CX a,b; h b; rz(pi) a; ry(t+phi+pi/2) a; rz(pi) b; ry(pi/2) b; h b; CX a,b; h b; rz(-pi/2) b; rx(-pi/2) b; rz((-u-pi)/2) a; rz((-u-pi)/2) b; }\n")
      [] kind = "PMInteraction" ->
            Ok("gate pmint(theta) a,b { rx(pi/2) a; CX a,b; rx(theta) a; ry(theta) b; CX a,b; rx(-pi/2) a; }\n")
      [] kind = "GivensRotation" ->
            Ok("gate gvnsrot(theta,phi) a,b { rz(phi+pi/2) b; rx(pi/2) a; CX a,b; rx(-theta) a; ry(-theta) b; CX a,b; rx(-pi/2) a; rz(-pi/2) b; }\n")
      [] kind = "GivensRotationLittleEndian" ->
            Ok("gate gvnsrotle(theta,phi) a,b { rz(-pi/2) a; rx(pi/2) a; CX a,b; rx(-theta) a; ry(-theta) b; CX a,b; rx(-pi/2) a; rz(phi+pi/2) a; }\n")
      [] kind = "Qsim" ->
            Ok("gate qsim(xc,yc,zc) a,b { rz(-pi/2) a; rz(pi) b; ry(pi/2) b; h b; CX a,b; h b; ry(-2*xc+pi/2) a; rx(pi) a; ry(-pi/2) b; rz(2*zc-pi) b; h b; CX a,b; h b; rz(pi) a; ry(2*yc+pi/2) a; rz(pi) b; ry(pi/2) b; h b; CX a,b; h b; rz(-pi/2) b; rx(-pi/2) b; }\n")
      [] kind = "XY" ->
            Ok("gate xy(theta) a,b { rx(pi/2) a; CX a,b; rx(-theta/2) a; ry(-theta/2) b; CX a,b; rx(-pi/2) a; }\n")
      [] kind = "SpinInteraction" ->
            Ok("gate spinint(xc,yc,zc) a,b { rz(-pi/2) a; rz(pi) b; ry(pi/2) b; h b; CX a,b; h b; ry(-2*xc) a; rx(pi) a; ry(-pi/2) b; rz(2*zc-pi/2) b; h b; CX a,b; h b; rz(pi) a; ry(2*yc+pi) a; rz(pi) b; ry(pi/2) b; h b; CX a,b; h b; rz(-pi/2) b; rx(-pi/2) b; }\n")
      [] kind = "PhaseShiftedControlledZ" ->
            Ok("gate pscz(phi) a,b { rz(pi/2) a; rz(pi/2) b; ry(pi/2) b; CX a,b; rx(-pi/2) b; rz(-pi/2) a; ry(-pi/2) b; rz(phi) a; rz(phi) b; }\n")
      [] kind = "PhaseShiftedControlledPhase" ->
            Ok("gate pscp(theta,phi) a,b { rz(theta/2) a; rz(theta/2) b; CX a,b; rz(-theta/2) b; CX a,b; rz(phi) a; rz(phi) b; }\n")
      [] kind = "PragmaGlobalPhase" ->
            Ok("gate gphase(theta) q { x q; u1(theta) q; x q; u1(theta) q; }\n")
      [] kind = "RotateXY" ->
            Ok("gate rxy(theta,phi) q { u3(theta,phi-pi/2,pi/2-phi) q; }\n")
      [] OTHER -> Err(GenericError("TODO"))


\* Faulty variant of GateDefinition: the result depends on the operation's qubit.
GateDefinitionByInstance(op) ==
    IF hqslang(op) = "RotateXY" /\ op.qubit # 0
    THEN Err(GenericError("TODO"))
    ELSE GateTemplate(hqslang(op))

GateDefinition(op) == GateTemplate(hqslang(op))

(***************************************************************************)
(* call_circuit returns Result<Vec<String>, RoqoqoBackendError>.           *)
(***************************************************************************)
CircuitOk(lines) == [tag |-> "Ok", lines |-> lines, error |-> NoError]
CircuitErr(error) == [tag |-> "Err", lines |-> <<>>, error |-> error]

NotReturned == [tag |-> "None", text |-> "", error |-> NoError]
CircuitNotReturned == [tag |-> "None", lines |-> <<>>, error |-> NoError]
NoOperation == [hqslang |-> ""]

(***************************************************************************)
(* Inputs: the operations, circuits and register names the calls are       *)
(* applied to.                                                             *)
(***************************************************************************)
Qubits == 0..MaxQubit
Pairs == {p \in Qubits \X Qubits : p[1] # p[2]}
Angles == {FRAC_PI_2, F0_23, Str("theta")}
Registers == {"q", "qr", "ro"}
Readouts == {"ro", "c"}
QubitLists == {<<q>> : q \in Qubits} \cup {[i \in 1..(MaxQubit + 1) |-> i - 1]}
ParamLists(n) == {[i \in 1..n |-> F0_23], [i \in 1..n |-> Str("theta")]}

\* Two-qubit kinds with further parameters that call_operation never reads.
TwoQubitParamOp(name, control, target, params) ==
    [hqslang |-> name, control |-> control, target |-> target, params |-> params]

SingleQubitKinds ==
    {"Hadamard", "PauliX", "PauliY", "PauliZ", "SGate", "TGate", "SqrtPauliX",
     "InvSqrtPauliX", "PragmaActiveReset"}
RotationKinds == {"RotateZ", "RotateX", "RotateY", "PhaseShiftState1"}
TwoQubitKinds ==
    {"CNOT", "MolmerSorensenXX", "ControlledPauliY", "ControlledPauliZ", "SWAP",
     "ISwap", "SqrtISwap", "InvSqrtISwap", "FSwap"}
TwoQubitThetaKinds == {"VariableMSXX", "ControlledPhaseShift"}
OneParamKinds == {"XY", "PMInteraction", "PhaseShiftedControlledZ"}
TwoParamKinds ==
    {"GivensRotation", "GivensRotationLittleEndian", "PhaseShiftedControlledPhase",
     "Bogoliubov", "ComplexPMInteraction"}
ThreeParamKinds == {"Fsim", "Qsim", "SpinInteraction"}
DefinitionKinds ==
    {"DefinitionFloat", "DefinitionUsize", "DefinitionBit", "DefinitionComplex"}

\* HashMaps of k entries: every insertion order of k distinct keys, every
\* values, every iteration order.
EntryLists(k) ==
    {e \in [1..k -> Qubits \X Qubits] :
        \A i, j \in 1..k : i # j => e[i][1] # e[j][1]}
Reorderings(e) ==
    IF e = <<>> THEN {<<>>}
    ELSE {[i \in 1..Len(e) |-> e[p[i]]] : p \in Permutations(1..Len(e))}
HashMaps ==
    UNION {{SomeMapping(e, it) : it \in Reorderings(e)} :
             e \in UNION {EntryLists(k) : k \in 0..MaxMap}}

GateOperations ==
    {SingleQubitOp(k, q) : k \in SingleQubitKinds, q \in Qubits}
    \cup {RotationOp(k, q, a) : k \in RotationKinds, q \in Qubits, a \in Angles}
    \cup {TwoQubitOp(k, p[1], p[2]) : k \in TwoQubitKinds, p \in Pairs}
    \cup {TwoQubitThetaOp(k, p[1], p[2], a) :
            k \in TwoQubitThetaKinds, p \in Pairs, a \in Angles}
    \cup {TwoQubitParamOp(k, p[1], p[2], ps) :
            k \in OneParamKinds, p \in Pairs, ps \in ParamLists(1)}
    \cup {TwoQubitParamOp(k, p[1], p[2], ps) :
            k \in TwoParamKinds, p \in Pairs, ps \in ParamLists(2)}
    \cup {TwoQubitParamOp(k, p[1], p[2], ps) :
            k \in ThreeParamKinds, p \in Pairs, ps \in ParamLists(3)}
    \cup {RotateXY(q, a, a) : q \in Qubits, a \in {F0_23, Str("theta")}}
    \cup {SingleQubitGate(q, FZero, FOne, FZero, b, FZero) :
            q \in Qubits, b \in {FZero, FOne}}
    \cup {SingleQubitGate(q, Str("a"), FOne, FZero, FZero, FZero) : q \in Qubits}

MeasurementOperations ==
    {MeasureQubit(q, r, i) : q \in Qubits, r \in Readouts, i \in Qubits}
    \cup {PragmaRepeatedMeasurement(r, 20, m) :
            r \in Readouts, m \in {NoMapping} \cup HashMaps}
    \cup {DefinitionOp(k, r, l, o) :
            k \in DefinitionKinds, r \in Readouts, l \in 1..2, o \in BOOLEAN}

PragmaOperations ==
    {PragmaSleep(qs, a) : qs \in QubitLists, a \in Angles}
    \cup {PragmaGlobalPhase(a) : a \in Angles}
    \cup {PragmaStopParallelBlock(qs, a) : qs \in QubitLists, a \in Angles}
    \cup {PragmaDecompositionBlock(k, qs) :
            k \in {"PragmaStopDecompositionBlock", "PragmaStartDecompositionBlock"},
            qs \in QubitLists}
    \cup {PragmaSetNumberOfMeasurements(n, r) : n \in {1, 20}, r \in Readouts}
    \cup {InputSymbolic(n, a) : n \in {"theta"}, a \in {FRAC_PI_2, F0_23}}

\* Operations put inside conditionals: a plain line, an empty lowering, a
\* lowering of several lines, an unsupported kind and an unresolved angle.
TwoEntryMeasurement ==
    PragmaRepeatedMeasurement("ro", 20,
        SomeMapping(<<<<0, 1>>, <<1, 0>>>>, <<<<0, 1>>, <<1, 0>>>>))
InnerOperations ==
    {SingleQubitOp("PauliX", 0), PragmaSleep(<<0>>, F0_23), TwoEntryMeasurement,
     TwoQubitOp("ISwap", 0, 1), RotationOp("RotateX", 0, Str("theta"))}

SeqsUpTo(S, n) == UNION {[1..k -> S] : k \in 0..n}

\* Sub-circuits holding one conditional x, alone or beside one plain line.
Around(x) ==
    {<<x>>} \cup (IF MaxInner >= 2
                  THEN {<<SingleQubitOp("PauliX", 0), x>>, <<x, SingleQubitOp("PauliX", 0)>>}
                  ELSE {})

RECURSIVE Conditionals(_)
Conditionals(depth) ==
    IF depth = 0 THEN {}
    ELSE {PragmaConditional("c", i, sub) :
            i \in Qubits,
            sub \in SeqsUpTo(InnerOperations, MaxInner)
                      \cup UNION {Around(x) : x \in Conditionals(depth - 1)}}

Operations ==
    GateOperations \cup MeasurementOperations \cup PragmaOperations
        \cup Conditionals(MaxDepth)

\* Operations of the longer circuits.
CircuitOperations ==
    {DefinitionOp("DefinitionBit", "ro", 2, TRUE),
     RotationOp("RotateX", 0, FRAC_PI_2),
     SingleQubitOp("PauliX", 1),
     PragmaRepeatedMeasurement("ro", 20, NoMapping),
     PragmaSleep(<<0>>, F0_23),
     TwoQubitOp("ISwap", 0, 1),
     TwoQubitOp("FSwap", 0, 1),
     RotationOp("RotateX", 0, Str("theta"))}

Circuits == SeqsUpTo(CircuitOperations, MaxLen) \cup {<<op>> : op \in Operations}

(***************************************************************************)
(* The calls.                                                              *)
(***************************************************************************)
InitCircuit ==
    /\ pc = "call_circuit"
    /\ circuit \in Circuits
    /\ qubit_register_name \in Registers
    /\ operation = NoOperation

InitOperation ==
    /\ pc = "call_operation"
    /\ circuit = <<>>
    /\ qubit_register_name \in Registers
    /\ operation \in Operations

InitDefinition ==
    /\ pc = "gate_definition"
    /\ circuit = <<>>
    /\ qubit_register_name = ""
    /\ operation \in Operations

Init ==
    /\ InitCircuit \/ InitOperation \/ InitDefinition
    /\ idx = 1
    /\ str_circuit = <<>>
    /\ lowered = <<>>
    /\ circuit_result = CircuitNotReturned
    /\ operation_result = NotReturned
    /\ definition_result = NotReturned

\* Faulty variant of Push: an empty line is not given a slot.
PushNonEmpty(vec, item) == IF item = "" THEN vec ELSE Append(vec, item)

\* Vec::push
Push(vec, item) == Append(vec, item)

\* call_circuit, one turn of `for op in circuit.iter()`:
\* str_circuit.push(call_operation(op, qubit_register_name)?)
CallCircuitNext ==
    /\ pc = "call_circuit"
    /\ idx <= Len(circuit)
    /\ LET r == CallOperation(circuit[idx], qubit_register_name)
       IN  /\ lowered' = Append(lowered, idx)
           /\ CASE r.tag = "Ok" ->
                     /\ str_circuit' = Push(str_circuit, r.text)
                     /\ idx' = idx + 1
                     /\ UNCHANGED <<pc, circuit_result>>
                [] r.tag = "Err" ->
                     /\ circuit_result' = CircuitErr(r.error)
                     /\ str_circuit' = <<>>
                     /\ pc' = "call_circuit_returned"
                     /\ UNCHANGED idx
                [] r.tag = "Panic" ->
                     /\ str_circuit' = <<>>
                     /\ pc' = "call_circuit_panicked"
                     /\ UNCHANGED <<idx, circuit_result>>
    /\ UNCHANGED <<circuit, qubit_register_name, operation, operation_result,
                   definition_result>>

\* call_circuit, after the loop: Ok(str_circuit)
CallCircuitReturn ==
    /\ pc = "call_circuit"
    /\ idx > Len(circuit)
    /\ circuit_result' = CircuitOk(str_circuit)
    /\ pc' = "call_circuit_returned"
    /\ UNCHANGED <<circuit, qubit_register_name, idx, str_circuit, lowered,
                   operation, operation_result, definition_result>>

\* call_operation(operation, qubit_register_name)
CallOperationCall ==
    /\ pc = "call_operation"
    /\ LET r == CallOperation(operation, qubit_register_name)
       IN  IF r.tag = "Panic"
           THEN pc' = "call_operation_panicked" /\ UNCHANGED operation_result
           ELSE pc' = "call_operation_returned" /\ operation_result' = r
    /\ UNCHANGED <<circuit, qubit_register_name, idx, str_circuit, lowered,
                   circuit_result, operation, definition_result>>

\* gate_definition(operation)
GateDefinitionCall ==
    /\ pc = "gate_definition"
    /\ definition_result' = GateDefinition(operation)
    /\ pc' = "gate_definition_returned"
    /\ UNCHANGED <<circuit, qubit_register_name, idx, str_circuit, lowered,
                   circuit_result, operation, operation_result>>

Next ==
    \/ CallCircuitNext
    \/ CallCircuitReturn
    \/ CallOperationCall
    \/ GateDefinitionCall

Spec == Init /\ [][Next]_vars

(***************************************************************************)
(* Properties.                                                             *)
(***************************************************************************)
InCallCircuit ==
    pc \in {"call_circuit", "call_circuit_returned", "call_circuit_panicked"}
InCallOperation ==
    pc \in {"call_operation", "call_operation_returned", "call_operation_panicked"}

\* Every operation of c lowers to a string.
AllLower(c, register) ==
    \A i \in 1..Len(c) : CallOperation(c[i], register).tag = "Ok"

LoweredTexts(c, register) ==
    [i \in 1..Len(c) |-> CallOperation(c[i], register).text]

\* The first operation of c that does not lower to a string.
FirstFailing(c, register) ==
    CHOOSE i \in 1..Len(c) :
        /\ CallOperation(c[i], register).tag # "Ok"
        /\ \A j \in 1..(i - 1) : CallOperation(c[j], register).tag = "Ok"

\* C1: when every operation of the circuit lowers successfully, call_circuit
\* does not unwind, the lines collected so far are the lowerings of the
\* operations visited so far in circuit order, and the value returned is Ok
\* of exactly one string per operation, the i-th being the lowering of the
\* i-th operation (empty strings included, nothing reordered or merged).
C1_OneStringPerOperation ==
    (InCallCircuit /\ AllLower(circuit, qubit_register_name)) =>
        /\ pc # "call_circuit_panicked"
        /\ pc = "call_circuit" =>
              str_circuit =
                  SubSeq(LoweredTexts(circuit, qubit_register_name), 1, idx - 1)
        /\ pc = "call_circuit_returned" =>
              circuit_result =
                  CircuitOk(LoweredTexts(circuit, qubit_register_name))

\* A returned three-operation circuit with a repeated operation and an
\* operation that lowers to the empty string in the middle.
C1_Witness ==
    /\ pc = "call_circuit_returned"
    /\ Len(circuit) = 3
    /\ circuit[1] = circuit[3]
    /\ circuit[2] = PragmaSleep(<<0>>, F0_23)
    /\ circuit_result.tag = "Ok"
    /\ Len(circuit_result.lines) = 3
    /\ circuit_result.lines[2] = ""
    /\ circuit_result.lines[1] # ""

\* C2: when some operation of the circuit fails to lower, call_circuit
\* returns Err with the error of the first failing operation, and
\* call_operation is never invoked on an operation after that one.
C2_FailFast ==
    (InCallCircuit /\ ~AllLower(circuit, qubit_register_name)) =>
        LET f == FirstFailing(circuit, qubit_register_name)
        IN  /\ pc # "call_circuit_panicked"
            /\ \A k \in 1..Len(lowered) : lowered[k] <= f
            /\ pc = "call_circuit_returned" =>
                  /\ circuit_result.tag = "Err"
                  /\ circuit_result.lines = <<>>
                  /\ circuit_result.error =
                        CallOperation(circuit[f], qubit_register_name).error

\* C3: a circuit of a single ISwap, ControlledPhaseShift, FSwap or RotateXY
\* is rejected with OperationNotInBackend{backend: "QASM", hqslang: its kind}.
C3_SingleUnsupportedRejected ==
    (/\ InCallCircuit
     /\ Len(circuit) = 1
     /\ hqslang(circuit[1]) \in {"ISwap", "ControlledPhaseShift", "FSwap", "RotateXY"})
    => /\ pc # "call_circuit_panicked"
       /\ pc = "call_circuit_returned" =>
             circuit_result =
                 CircuitErr(OperationNotInBackend("QASM", hqslang(circuit[1])))

\* The kinds call_operation has a match arm for, and the allowed no-ops.
LoweringRuleKinds ==
    {"RotateZ", "RotateX", "RotateY", "Hadamard", "PauliX", "PauliY", "PauliZ",
     "SGate", "TGate", "PhaseShiftState1", "SqrtPauliX", "InvSqrtPauliX", "CNOT",
     "MolmerSorensenXX", "VariableMSXX", "ControlledPauliY", "ControlledPauliZ",
     "ControlledPhaseShift", "SWAP", "SingleQubitGate", "PragmaActiveReset",
     "PragmaConditional", "PragmaRepeatedMeasurement", "MeasureQubit",
     "DefinitionFloat", "DefinitionUsize", "DefinitionBit", "DefinitionComplex"}
AllowedNoOpKinds ==
    {"PragmaSleep", "PragmaGlobalPhase", "PragmaStopParallelBlock",
     "PragmaStopDecompositionBlock", "PragmaStartDecompositionBlock",
     "PragmaSetNumberOfMeasurements", "InputSymbolic"}

\* C4: call_operation on an operation whose kind has neither a lowering rule
\* nor a place in the allowed no-op set returns
\* OperationNotInBackend{backend: "QASM", hqslang: that kind}; on any other
\* operation it never returns that error.
C4_UnsupportedKindError ==
    InCallOperation /\ pc # "call_operation" =>
        LET known == hqslang(operation) \in LoweringRuleKinds \cup AllowedNoOpKinds
        IN  /\ ~known =>
                  /\ pc = "call_operation_returned"
                  /\ operation_result =
                        Err(OperationNotInBackend("QASM", hqslang(operation)))
            /\ known =>
                  ~(/\ operation_result.tag = "Err"
                    /\ operation_result.error.variant = "OperationNotInBackend")

\* call_operation has returned the error for a Bogoliubov operation.
C4_Witness ==
    /\ pc = "call_operation_returned"
    /\ hqslang(operation) = "Bogoliubov"
    /\ operation_result.tag = "Err"
    /\ operation_result.error.hqslang = "Bogoliubov"

\* Lines each followed by a newline, and lines joined by newlines.
RECURSIVE EachWithNewline(_)
EachWithNewline(lines) ==
    IF lines = <<>> THEN ""
    ELSE Head(lines) \o "\n" \o EachWithNewline(Tail(lines))

RECURSIVE JoinWithNewline(_)
JoinWithNewline(lines) ==
    IF lines = <<>> THEN ""
    ELSE IF Len(lines) = 1 THEN lines[1]
    ELSE Head(lines) \o "\n" \o JoinWithNewline(Tail(lines))

\* Number of newline characters of a text.
RECURSIVE CountNewlines(_)
CountNewlines(text) ==
    IF Len(text) = 0 THEN 0
    ELSE (IF SubSeq(text, 1, 1) = "\n" THEN 1 ELSE 0)
            + CountNewlines(SubSeq(text, 2, Len(text)))

\* `measure <reg>[qubit] -> <readout>[bit];` for each entry, in the order given.
MeasureLines(entries, readout, register) ==
    [i \in 1..Len(entries) |->
        "measure " \o register \o "[" \o UsizeToStr(entries[i][1]) \o "] -> "
            \o readout \o "[" \o UsizeToStr(entries[i][2]) \o "];"]

IsRepeatedMeasurementCall ==
    /\ InCallOperation
    /\ pc # "call_operation"
    /\ hqslang(operation) = "PragmaRepeatedMeasurement"

\* C5 (as stated): lowering a repeated measurement gives one line
\* `measure <reg> -> <readout>;` without a mapping and, with a mapping of K
\* entries, K lines `measure <reg>[qubit] -> <readout>[bit];`, each followed
\* by a newline, in the order the entries were inserted into the mapping.
C5_InsertionOrder ==
    IsRepeatedMeasurementCall =>
        /\ pc = "call_operation_returned"
        /\ operation_result.tag = "Ok"
        /\ operation_result.text =
              IF ~operation.qubit_mapping.some
              THEN "measure " \o qubit_register_name \o " -> "
                      \o operation.readout \o ";"
              ELSE EachWithNewline(MeasureLines(operation.qubit_mapping.inserted,
                                                operation.readout,
                                                qubit_register_name))

\* C5 (amended): as above, but the K lines follow the order in which the
\* mapping's iterator yields the entries; there are exactly K newlines, so an
\* empty mapping gives the empty text and never the single line of None.
C5_IterationOrder ==
    IsRepeatedMeasurementCall =>
        /\ pc = "call_operation_returned"
        /\ operation_result.tag = "Ok"
        /\ ~operation.qubit_mapping.some =>
              /\ operation_result.text =
                    "measure " \o qubit_register_name \o " -> "
                        \o operation.readout \o ";"
              /\ CountNewlines(operation_result.text) = 0
        /\ operation.qubit_mapping.some =>
              /\ operation_result.text =
                    EachWithNewline(MeasureLines(operation.qubit_mapping.iter,
                                                 operation.readout,
                                                 qubit_register_name))
              /\ CountNewlines(operation_result.text) =
                    Len(operation.qubit_mapping.inserted)

\* A returned repeated measurement whose two-entry mapping iterates in the
\* order opposite to insertion.
C5_Witness ==
    /\ pc = "call_operation_returned"
    /\ hqslang(operation) = "PragmaRepeatedMeasurement"
    /\ operation.qubit_mapping.some
    /\ operation.qubit_mapping.inserted = <<<<0, 1>>, <<1, 0>>>>
    /\ operation.qubit_mapping.iter = <<<<1, 0>>, <<0, 1>>>>
    /\ operation.readout = "ro"
    /\ qubit_register_name = "q"
    /\ operation_result.text = "measure q[1] -> ro[0];\nmeasure q[0] -> ro[1];\n"

\* C6: a conditional whose N inner operations all lower gives N segments
\* `if(<condition_register>[<condition_index>]==1) ` + inner lowering, in
\* sub-circuit order, joined by single newlines with none at the end; N = 0
\* gives the empty string and an empty inner lowering leaves the bare guard.
C6_GuardedSegments ==
    (/\ InCallOperation
     /\ pc # "call_operation"
     /\ hqslang(operation) = "PragmaConditional"
     /\ AllLower(operation.circuit, qubit_register_name))
    => /\ pc = "call_operation_returned"
       /\ operation_result =
             Ok(JoinWithNewline(
                 [i \in 1..Len(operation.circuit) |->
                     "if(" \o operation.condition_register \o "["
                         \o UsizeToStr(operation.condition_index) \o "]==1) "
                         \o CallOperation(operation.circuit[i],
                                          qubit_register_name).text]))

\* A returned conditional of two inner operations, the second lowering to
\* the empty string.
C6_Witness ==
    /\ pc = "call_operation_returned"
    /\ hqslang(operation) = "PragmaConditional"
    /\ operation.condition_index = 1
    /\ operation.circuit = <<SingleQubitOp("PauliX", 0), PragmaSleep(<<0>>, F0_23)>>
    /\ qubit_register_name = "q"
    /\ operation_result.text = "if(c[1]==1) x q[0];\nif(c[1]==1) "

\* C7: call_operation on a RotateX, RotateY, RotateZ or PhaseShiftState1 whose
\* angle is symbolic returns an error value: it neither unwinds nor emits a line.
C7_UnresolvedAngleIsError ==
    (/\ InCallOperation
     /\ hqslang(operation) \in {"RotateX", "RotateY", "RotateZ", "PhaseShiftState1"}
     /\ operation.theta.tag = "Str")
    => /\ pc # "call_operation_panicked"
       /\ pc = "call_operation_returned" => operation_result.tag = "Err"

\* C8: call_operation on an operation of an allowed no-op kind returns Ok of
\* the empty string, whatever its fields and the register name.
C8_AllowedNoOps ==
    (/\ InCallOperation
     /\ pc # "call_operation"
     /\ hqslang(operation) \in AllowedNoOpKinds)
    => /\ pc = "call_operation_returned"
       /\ operation_result = Ok("")

\* A returned InputSymbolic, and the register named like the classical one.
C8_Witness ==
    /\ pc = "call_operation_returned"
    /\ hqslang(operation) = "InputSymbolic"
    /\ qubit_register_name = "ro"
    /\ operation_result.tag = "Ok"
    /\ operation_result.text = ""

ScenarioCircuit ==
    <<DefinitionOp("DefinitionBit", "ro", 2, TRUE),
      RotationOp("RotateX", 0, FRAC_PI_2),
      SingleQubitOp("PauliX", 1),
      PragmaRepeatedMeasurement("ro", 20, NoMapping)>>

\* C9: for every register name r the scenario circuit translates to
\* `creg ro[2];`, `rx(1.5707963267948966) r[0];`, `x r[1];`, `measure r -> ro;`.
C9_EndToEnd ==
    (InCallCircuit /\ circuit = ScenarioCircuit) =>
        /\ pc # "call_circuit_panicked"
        /\ pc = "call_circuit_returned" =>
              circuit_result =
                  CircuitOk(<<"creg ro[2];",
                              "rx(1.5707963267948966) " \o qubit_register_name \o "[0];",
                              "x " \o qubit_register_name \o "[1];",
                              "measure " \o qubit_register_name \o " -> ro;">>)

\* The scenario circuit translated with the qubit register named "ro".
C9_Witness ==
    /\ pc = "call_circuit_returned"
    /\ circuit = ScenarioCircuit
    /\ qubit_register_name = "ro"
    /\ circuit_result.tag = "Ok"
    /\ circuit_result.lines[2] = "rx(1.5707963267948966) ro[0];"
    /\ circuit_result.lines[4] = "measure ro -> ro;"

\* The kinds gate_definition has a template for, and the non-native family.
TemplateKinds ==
    {"RotateX", "RotateY", "RotateZ", "Hadamard", "CNOT", "ISwap", "SqrtISwap",
     "InvSqrtISwap", "FSwap", "Fsim", "PMInteraction", "GivensRotation",
     "GivensRotationLittleEndian", "Qsim", "XY", "SpinInteraction",
     "PhaseShiftedControlledZ", "PhaseShiftedControlledPhase",
     "PragmaGlobalPhase", "RotateXY"}
NonNativeFamily ==
    {"ISwap", "SqrtISwap", "InvSqrtISwap", "FSwap", "Fsim", "XY",
     "SpinInteraction", "GivensRotation", "GivensRotationLittleEndian",
     "PhaseShiftedControlledZ", "PhaseShiftedControlledPhase", "RotateXY",
     "PragmaGlobalPhase"}

\* C10: gate_definition gives every gate or pragma of the same kind, whatever
\* its qubits and parameters, the value it returned for this one; a kind of
\* the non-native family gets Ok of a gate definition; a kind without a
\* template gets the generic error, returned.
C10_DefinitionByKind ==
    pc = "gate_definition_returned" =>
        /\ \A other \in GateOperations \cup PragmaOperations :
              hqslang(other) = hqslang(operation) =>
                  GateDefinition(other) = definition_result
        /\ hqslang(operation) \in NonNativeFamily =>
              /\ definition_result.tag = "Ok"
              /\ Len(definition_result.text) > 5
              /\ SubSeq(definition_result.text, 1, 5) = "gate "
        /\ hqslang(operation) \notin TemplateKinds =>
              /\ definition_result.tag = "Err"
              /\ definition_result.error = GenericError("TODO")

\* gate_definition has returned a definition for a RotateXY on qubit 1 with
\* symbolic angles.
C10_Witness ==
    /\ pc = "gate_definition_returned"
    /\ operation = RotateXY(1, Str("theta"), Str("theta"))
    /\ definition_result.tag = "Ok"
    /\ definition_result.text =
          "gate rxy(theta,phi) q { u3(theta,phi-pi/2,pi/2-phi) q; }\n"

\* Kinds of the operations of a sub-circuit, at any depth of conditionals,
\* that have neither a lowering rule nor a place among the allowed no-ops.
RECURSIVE UnsupportedKindsIn(_)
UnsupportedKindsIn(c) ==
    UNION {IF hqslang(c[i]) = "PragmaConditional"
           THEN UnsupportedKindsIn(c[i].circuit)
           ELSE IF hqslang(c[i]) \in LoweringRuleKinds \cup AllowedNoOpKinds
                THEN {}
                ELSE {hqslang(c[i])} : i \in 1..Len(c)}

\* No operation of the sub-circuit, at any depth, unwinds by itself (none
\* has an unresolved angle): each lowers or is of an unsupported kind.
RECURSIVE NoUnresolvedAngleIn(_, _)
NoUnresolvedAngleIn(c, register) ==
    \A i \in 1..Len(c) :
        IF hqslang(c[i]) = "PragmaConditional"
        THEN NoUnresolvedAngleIn(c[i].circuit, register)
        ELSE CallOperation(c[i], register).tag # "Panic"

HoldsUnsupported(op, register) ==
    /\ hqslang(op) = "PragmaConditional"
    /\ UnsupportedKindsIn(op.circuit) # {}
    /\ NoUnresolvedAngleIn(op.circuit, register)

\* C11: call_operation on a conditional whose sub-circuit holds, at any
\* position and depth, an operation of an unsupported kind returns
\* Err(OperationNotInBackend{backend: "QASM", hqslang: that kind}) and no
\* text, and so does call_circuit on a circuit of that conditional; neither
\* call unwinds.
C11_InnerErrorReturned ==
    /\ (InCallOperation /\ HoldsUnsupported(operation, qubit_register_name)) =>
          /\ pc # "call_operation_panicked"
          /\ pc = "call_operation_returned" =>
                /\ operation_result.tag = "Err"
                /\ operation_result.text = ""
                /\ operation_result.error.variant = "OperationNotInBackend"
                /\ operation_result.error.backend = "QASM"
                /\ operation_result.error.hqslang
                      \in UnsupportedKindsIn(operation.circuit)
    /\ (/\ InCallCircuit
        /\ Len(circuit) = 1
        /\ HoldsUnsupported(circuit[1], qubit_register_name)) =>
          /\ pc # "call_circuit_panicked"
          /\ pc = "call_circuit_returned" =>
                /\ circuit_result.tag = "Err"
                /\ circuit_result.error.variant = "OperationNotInBackend"
                /\ circuit_result.error.hqslang
                      \in UnsupportedKindsIn(circuit[1].circuit)

\* Position of the first newline of a text from position i on, 0 if none.
RECURSIVE FirstNewline(_, _)
FirstNewline(text, i) ==
    IF i > Len(text) THEN 0
    ELSE IF SubSeq(text, i, i) = "\n" THEN i
    ELSE FirstNewline(text, i + 1)

\* The physical lines of a text: its pieces between newlines.
RECURSIVE PhysicalLines(_)
PhysicalLines(text) ==
    IF Len(text) = 0 THEN <<>>
    ELSE LET k == FirstNewline(text, 1)
         IN  IF k = 0 THEN <<text>>
             ELSE <<SubSeq(text, 1, k - 1)>>
                     \o PhysicalLines(SubSeq(text, k + 1, Len(text)))

StartsWith(text, prefix) ==
    /\ Len(text) >= Len(prefix)
    /\ SubSeq(text, 1, Len(prefix)) = prefix

\* C12: every non-empty physical line of the text call_operation returns for
\* a conditional starts with the conditional's guard
\* `if(<condition_register>[<condition_index>]==1) `, also when an inner
\* operation lowers to several lines.
C12_EveryLineGuarded ==
    (pc = "call_operation_returned" /\ hqslang(operation) = "PragmaConditional") =>
        LET lines == PhysicalLines(operation_result.text)
            prefix == "if(" \o operation.condition_register \o "["
                          \o UsizeToStr(operation.condition_index) \o "]==1) "
        IN  \A i \in 1..Len(lines) :
                Len(lines[i]) > 0 => StartsWith(lines[i], prefix)

====
